---- MODULE Spec2Model ----
(***************************************************************************)
(* Route search of src/script.js: buildGraph, dijkstra and searchRoute.   *)
(*                                                                         *)
(* Conventions of the model                                                *)
(*  - The source's Japanese string literals are written in ASCII:          *)
(*      "Local" futsuu, "LocalS" futsuu(minami), "SemiExp" junkyuu,       *)
(*      "Dummy" damii, "Express" kyuukou, "Rapid" kaisoku,                *)
(*      "RapidS" kaisoku(minami), "Transfer" norikae, "Through" chokutsuu,*)
(*      "Walk" toho, "Platform" kounai-norikae.                            *)
(*  - A graph node `${id}_${type}` is the pair <<id, type>>; split("_")   *)
(*    is the projection on its components (ids hold no underscore).       *)
(*  - Times are rationals in the source (dist/15 + 5, dist/4).  The model  *)
(*    counts time in units of 1/Scale second, Scale = 60, so that every    *)
(*    time of the source is an integer; distances are metres and the      *)
(*    inputs keep every station distance an integer.                      *)
(*  - A JavaScript object or Set is a sequence in insertion order, since  *)
(*    the source iterates them and Array.find returns the first match.    *)
(***************************************************************************)
EXTENDS Integers, Sequences, FiniteSets, TLC

VARIABLES data, pc, graph, pat, pairIdx, modifiedEdges, dj, ret, bestRoute,
          allResults, shown

vars == <<data, pc, graph, pat, pairIdx, modifiedEdges, dj, ret, bestRoute,
          allResults, shown>>

----------------------------------------------------------------------------
(* Program constants *)

TRAIN_SPEED == 15
STOP_TIME == 5
TRANSFER_TIME == 15
WALK_SPEED_MPS == 4
MAX_WALK_DISTANCE_M == 150
THROUGH_SERVICE_TIME == 1
PLATFORM_TRANSFER_TIME == 10
PENALTY_TRANSFER_A == 180
PENALTY_EXPRESS_B == 60
PENALTY_TRANSFER_B == 30
MAX_RESULTS == 3

\* Time unit: 1/Scale second (the least common multiple of the two speeds).
Scale == TRAIN_SPEED * WALK_SPEED_MPS

\* dist / TRAIN_SPEED + STOP_TIME, in 1/Scale seconds
RideTime(dist) == dist * (Scale \div TRAIN_SPEED) + STOP_TIME * Scale

\* dist / WALK_SPEED_MPS, in 1/Scale seconds
WalkTime(dist) == dist * (Scale \div WALK_SPEED_MPS)

----------------------------------------------------------------------------
(* Generic helpers standing for JavaScript built-ins *)

Abs(n) == IF n < 0 THEN -n ELSE n

\* Math.sqrt on the squares the inputs produce (exact for them)
ISqrt(n) ==
  IF n = 0 THEN 0
  ELSE CHOOSE r \in 1..n : r * r <= n /\ (r + 1) * (r + 1) > n

\* Math.sqrt((sA.x - sB.x)**2 + (sA.y - sB.y)**2)
EuclidDist(sA, sB) ==
  LET dx == Abs(sA.x - sB.x)
      dy == Abs(sA.y - sB.y)
  IN  IF dy = 0 THEN dx
      ELSE IF dx = 0 THEN dy
      ELSE ISqrt(dx * dx + dy * dy)

\* Array.includes
Includes(seq, v) == \E i \in 1..Len(seq) : seq[i] = v

\* least of the indices hits at which the test of Array.find / indexOf succeeds,
\* 0 if there is none
FirstIdx(hits) ==
  IF hits = {} THEN 0 ELSE CHOOSE i \in hits : \A j \in hits : i <= j

\* stations.find(s => s.id === id): index in the list, 0 when undefined
FindStation(stations, id) == FirstIdx({i \in 1..Len(stations) : stations[i].id = id})

\* typeName.replace(/(?:\(minami\)|\(hakuba\))/g, "")
BaseType(t) ==
  CASE t = "LocalS" -> "Local"
    [] t = "RapidS" -> "Rapid"
    [] OTHER -> t

\* `${company}-${line}`
LineKey(company, line) == <<company, line>>

\* `${id}_${type}`
Node(id, type) == <<id, type>>

NoNode == <<"", "">>

----------------------------------------------------------------------------
(* buildGraph, pass 1: the physical line data learnt from the base services *)

\* ["futsuu", "futsuu(minami)", "junkyuu", "damii"].includes(service.type)
isBaseRoute(type) == type \in {"Local", "LocalS", "SemiExp", "Dummy"}

\* lineOrderMap[id]: the ordinal of a station on a line, -1 standing for undefined
Ordinal(entries, id) ==
  LET k == FirstIdx({i \in 1..Len(entries) : entries[i][1] = id})
  IN  IF k = 0 THEN -1 ELSE entries[k][2]

\* stopId in stationOrderMap[lineKey]
HasOrdinal(entries, id) == FirstIdx({i \in 1..Len(entries) : entries[i][1] = id}) # 0

\* the JavaScript comparison a > b on ordinals, false when either is undefined
OrdGreater(a, b) == a # -1 /\ b # -1 /\ a > b

\* segmentCache[lineKey][`${from}->${to}`] is set
HasSegment(seg, key, from, to) == <<key, from, to>> \in DOMAIN seg

\* one iteration of the loop over baseStops (source lines 90-118)
BaseStopStep(st, stations, key, baseStops, i) ==
  LET stopId == baseStops[i]
      entries == st.order[key]
      order1 == IF HasOrdinal(entries, stopId) THEN st.order
                ELSE [st.order EXCEPT ![key] = Append(entries, <<stopId, i - 1>>)]
      fromId == baseStops[i]
      toId == IF i < Len(baseStops) THEN baseStops[i + 1] ELSE ""
      a == FindStation(stations, fromId)
      b == FindStation(stations, toId)
      dist == EuclidDist(stations[a], stations[b])
      entry == [dist |-> dist, time |-> RideTime(dist)]
      seg1 == IF i < Len(baseStops) /\ ~HasSegment(st.seg, key, fromId, toId)
                 /\ a # 0 /\ b # 0
              THEN (<<key, toId, fromId>> :> entry) @@ (<<key, fromId, toId>> :> entry)
                     @@ st.seg
              ELSE st.seg
  IN  [order |-> order1, seg |-> seg1]

RECURSIVE BaseStops(_, _, _, _, _)
BaseStops(st, stations, key, baseStops, i) ==
  IF i > Len(baseStops) THEN st
  ELSE BaseStops(BaseStopStep(st, stations, key, baseStops, i), stations, key,
                 baseStops, i + 1)

\* one base route: create the line's maps when absent, then walk its stops
BaseRoute(st, stations, route) ==
  LET key == LineKey(route.company, route.line)
      order0 == IF key \in DOMAIN st.order THEN st.order ELSE (key :> <<>>) @@ st.order
  IN  BaseStops([order |-> order0, seg |-> st.seg], stations, key, route.stops, 1)

RECURSIVE BaseRoutes(_, _, _, _)
BaseRoutes(st, stations, routes, r) ==
  IF r > Len(routes) THEN st
  ELSE BaseRoutes(BaseRoute(st, stations, routes[r]), stations, routes, r + 1)

RECURSIVE BasePass(_, _, _, _)
BasePass(st, stations, services, s) ==
  IF s > Len(services) THEN st
  ELSE BasePass(IF isBaseRoute(services[s].type)
                THEN BaseRoutes(st, stations, services[s].routes, 1)
                ELSE st,
                stations, services, s + 1)

EmptyMap == [k \in {} |-> 0]

\* stationOrderMap and segmentCache after the first loop of buildGraph
PhysicalLines(stations, services) ==
  BasePass([order |-> EmptyMap, seg |-> EmptyMap], stations, services, 1)

----------------------------------------------------------------------------
(* buildGraph, pass 2: the ride edges of every service *)

\* insertion of e into a list sorted by ordinal, after the entries that compare equal
RECURSIVE InsertByOrd(_, _)
InsertByOrd(sorted, e) ==
  IF sorted = <<>> THEN <<e>>
  ELSE IF e[2] < sorted[1][2] THEN <<e>> \o sorted
  ELSE <<sorted[1]>> \o InsertByOrd(Tail(sorted), e)

RECURSIVE SortByOrd(_, _)
SortByOrd(entries, k) ==
  IF k = 0 THEN <<>>
  ELSE InsertByOrd(SortByOrd(entries, k - 1), entries[k])

\* Object.keys(lineOrderMap).sort((a, b) => lineOrderMap[a] - lineOrderMap[b])
fullLineStationIds(entries) ==
  LET sorted == SortByOrd(entries, Len(entries))
  IN  [k \in 1..Len(sorted) |-> sorted[k][1]]

\* fullLineStationIds.indexOf(id), 1-based, 0 standing for -1
IndexOf(seq, v) == FirstIdx({i \in 1..Len(seq) : seq[i] = v})

\* segData.dist of the hop between positions k and k + 1, 0 when segData is undefined
HopDist(seg, key, full, k) ==
  IF HasSegment(seg, key, full[k], full[k + 1])
  THEN seg[<<key, full[k], full[k + 1]>>].dist
  ELSE 0

\* the loop `for (j = idxFrom; j !== idxTo; j += direction)` (source lines 153-163)
RECURSIVE SumHops(_, _, _, _, _)
SumHops(seg, key, full, lo, hi) ==
  IF lo >= hi THEN 0
  ELSE HopDist(seg, key, full, lo) + SumHops(seg, key, full, lo + 1, hi)

totalDist(seg, key, full, idxFrom, idxTo) ==
  IF idxTo > idxFrom THEN SumHops(seg, key, full, idxFrom, idxTo)
  ELSE SumHops(seg, key, full, idxTo, idxFrom)

\* totalTime = (totalDist / TRAIN_SPEED) + STOP_TIME
totalTime(dist) == RideTime(dist)

\* stationStops[id].add(type), creating the set when absent; insertion order kept
AddStop(stops, id, type) ==
  LET k == FirstIdx({i \in 1..Len(stops) : stops[i].id = id})
  IN  IF k = 0 THEN Append(stops, [id |-> id, types |-> <<type>>])
      ELSE IF Includes(stops[k].types, type) THEN stops
      ELSE [stops EXCEPT ![k].types = Append(@, type)]

\* stationStops[id] || []
StopTypes(stops, id) ==
  LET k == FirstIdx({i \in 1..Len(stops) : stops[i].id = id})
  IN  IF k = 0 THEN <<>> ELSE stops[k].types

\* the named exception: no Local ride from IK01 to IK02 (source line 145)
BannedRide(type, fromId, toId) == type = "Local" /\ fromId = "IK01" /\ toId = "IK02"

\* the pair pushed at source lines 172-173
RideEdges(fromId, toId, type, route, dist) ==
  LET props == [time |-> totalTime(dist), dist |-> dist, type |-> type,
                company |-> route.company, line |-> route.line]
  IN  << [from |-> Node(fromId, type), to |-> Node(toId, type)] @@ props,
         [from |-> Node(toId, type), to |-> Node(fromId, type)] @@ props >>

\* one consecutive stop pair of a route (source lines 140-180)
RideStep(st, lines, type, route, i) ==
  LET key == LineKey(route.company, route.line)
      full == fullLineStationIds(lines.order[key])
      fromId == route.stops[i]
      toId == route.stops[i + 1]
      idxFrom == IndexOf(full, fromId)
      idxTo == IndexOf(full, toId)
  IN  IF BannedRide(type, fromId, toId) \/ idxFrom = 0 \/ idxTo = 0 THEN st
      ELSE [edges |-> st.edges \o RideEdges(fromId, toId, type, route,
                                            totalDist(lines.seg, key, full, idxFrom, idxTo)),
            stops |-> AddStop(AddStop(st.stops, fromId, type), toId, type)]

RECURSIVE RideSteps(_, _, _, _, _)
RideSteps(st, lines, type, route, i) ==
  IF i >= Len(route.stops) THEN st
  ELSE RideSteps(RideStep(st, lines, type, route, i), lines, type, route, i + 1)

RECURSIVE ServiceRoutes(_, _, _, _, _)
ServiceRoutes(st, lines, type, routes, r) ==
  IF r > Len(routes) THEN st
  ELSE ServiceRoutes(IF LineKey(routes[r].company, routes[r].line) \in DOMAIN lines.order
                     THEN RideSteps(st, lines, type, routes[r], 1)
                     ELSE st,
                     lines, type, routes, r + 1)

RECURSIVE ServicePass(_, _, _, _)
ServicePass(st, lines, services, s) ==
  IF s > Len(services) THEN st
  ELSE ServicePass(IF services[s].type = "Dummy" THEN st
                   ELSE ServiceRoutes(st, lines, services[s].type, services[s].routes, 1),
                   lines, services, s + 1)

\* edges and stationStops after the second loop of buildGraph
ServiceEdges(lines, services) ==
  ServicePass([edges |-> <<>>, stops |-> <<>>], lines, services, 1)

----------------------------------------------------------------------------
(* buildGraph, pass 3: transfers between the services of one station *)

\* the named exception at NY10 (source lines 197-203)
BannedTransfer(stationId, type1, type2) ==
  /\ stationId = "NY10"
  /\ \/ {"Local", "LocalS"} \subseteq {type1, type2}
     \/ {"Rapid", "RapidS"} \subseteq {type1, type2}

\* the pair pushed at source lines 209-210
TransferEdges(stationId, type1, type2, station) ==
  LET props == [time |-> TRANSFER_TIME * Scale, dist |-> 0, type |-> "Transfer",
                company |-> station.company, line |-> station.line]
  IN  << [from |-> Node(stationId, type1), to |-> Node(stationId, type2)] @@ props,
         [from |-> Node(stationId, type2), to |-> Node(stationId, type1)] @@ props >>

\* the pairs (i, j), i < j, of a list of n types, in the order of the two loops
TypePairs(n) ==
  LET Row(i) == [j \in 1..(n - i) |-> <<i, i + j>>]
      F[i \in 1..(n + 1)] == IF i >= n THEN <<>> ELSE Row(i) \o F[i + 1]
  IN  F[1]

\* the transfer edges of one station; threw: station.company read on undefined
\* (stations.find found nothing, source lines 190 and 207)
RECURSIVE TransferPairs(_, _, _, _, _)
TransferPairs(st, stations, entry, pairs, k) ==
  IF k > Len(pairs) \/ st.threw THEN st
  ELSE LET type1 == entry.types[pairs[k][1]]
           type2 == entry.types[pairs[k][2]]
           sIdx == FindStation(stations, entry.id)
       IN  TransferPairs(
             IF BannedTransfer(entry.id, type1, type2) THEN st
             ELSE IF sIdx = 0 THEN [st EXCEPT !.threw = TRUE]
             ELSE [st EXCEPT !.edges = @ \o TransferEdges(entry.id, type1, type2,
                                                          stations[sIdx])],
             stations, entry, pairs, k + 1)

RECURSIVE TransferPass(_, _, _, _)
TransferPass(st, stations, stops, k) ==
  IF k > Len(stops) \/ st.threw THEN st
  ELSE TransferPass(IF Len(stops[k].types) <= 1 THEN st
                    ELSE TransferPairs(st, stations, stops[k],
                                       TypePairs(Len(stops[k].types)), 1),
                    stations, stops, k + 1)

----------------------------------------------------------------------------
(* buildGraph, pass 4: coincident stations (platform transfer, through service)
   and stations within walking distance *)

\* throughServices.find(ts => the pair sA, sB in either order), 0 when undefined
PairRule(throughServices, idA, idB) ==
  FirstIdx({i \in 1..Len(throughServices) :
              LET ts == throughServices[i]
              IN  \/ ts.stationIdA = idA /\ ts.stationIdB = idB
                  \/ ts.stationIdA = idB /\ ts.stationIdB = idA})

\* edgeInfo of source lines 240-255
PlatformInfo(throughServices, sA, sB, typeA, typeB) ==
  LET r == PairRule(throughServices, sA.id, sB.id)
  IN  IF BaseType(typeA) = BaseType(typeB) /\ r # 0
         /\ Includes(throughServices[r].types, BaseType(typeA))
      THEN [type |-> "Through", line |-> "Through", time |-> THROUGH_SERVICE_TIME * Scale]
      ELSE [type |-> "Transfer", line |-> "Platform",
            time |-> PLATFORM_TRANSFER_TIME * Scale]

\* the pair pushed at source lines 258-259: each direction carries the company
\* of the station it leaves
PlatformEdges(throughServices, sA, sB, typeA, typeB) ==
  LET props == PlatformInfo(throughServices, sA, sB, typeA, typeB) @@ [dist |-> 0]
  IN  << [from |-> Node(sA.id, typeA), to |-> Node(sB.id, typeB),
          company |-> sA.company] @@ props,
         [from |-> Node(sB.id, typeB), to |-> Node(sA.id, typeA),
          company |-> sB.company] @@ props >>

\* WalkEdges without the second push
WalkEdgesOneWay(sA, sB, typeA, typeB, dist) ==
  << [from |-> Node(sA.id, typeA), to |-> Node(sB.id, typeB),
      time |-> WalkTime(dist), dist |-> dist, type |-> "Transfer",
      company |-> "Walk", line |-> "Walk"] >>

\* the pair pushed at source lines 272-273
WalkEdges(sA, sB, typeA, typeB, dist) ==
  LET props == [time |-> WalkTime(dist), dist |-> dist, type |-> "Transfer",
                company |-> "Walk", line |-> "Walk"]
  IN  << [from |-> Node(sA.id, typeA), to |-> Node(sB.id, typeB)] @@ props,
         [from |-> Node(sB.id, typeB), to |-> Node(sA.id, typeA)] @@ props >>

\* the edges between two stations, for typeA of typesA, for typeB of typesB
PairEdges(throughServices, sA, sB, typesA, typesB) ==
  LET dist == EuclidDist(sA, sB)
      n == Len(typesA) * Len(typesB)
      TA(k) == typesA[((k - 1) \div Len(typesB)) + 1]
      TB(k) == typesB[((k - 1) % Len(typesB)) + 1]
      F[k \in 0..n] ==
        IF k = 0 THEN <<>>
        ELSE F[k - 1] \o
             (IF dist = 0 /\ sA.id # sB.id
              THEN PlatformEdges(throughServices, sA, sB, TA(k), TB(k))
              ELSE WalkEdges(sA, sB, TA(k), TB(k), dist))
  IN  IF (dist = 0 /\ sA.id # sB.id) \/ (dist > 0 /\ dist <= MAX_WALK_DISTANCE_M)
      THEN F[n]
      ELSE <<>>

\* the two loops over the station list, i < j (source lines 221-278)
RECURSIVE ProximityPass(_, _, _, _, _, _)
ProximityPass(edges, stations, throughServices, stops, i, j) ==
  IF i > Len(stations) THEN edges
  ELSE IF j > Len(stations) \/ StopTypes(stops, stations[i].id) = <<>>
       THEN ProximityPass(edges, stations, throughServices, stops, i + 1, i + 2)
  ELSE ProximityPass(
         IF StopTypes(stops, stations[j].id) = <<>> THEN edges
         ELSE edges \o PairEdges(throughServices, stations[i], stations[j],
                                 StopTypes(stops, stations[i].id),
                                 StopTypes(stops, stations[j].id)),
         stations, throughServices, stops, i, j + 1)

----------------------------------------------------------------------------
(* buildGraph *)

\* { edges, stationStops, stationOrderMap }, or threw; segmentCache is kept
\* beside them, since the ride edges are weighed from it
buildGraph(stations, services, throughServices) ==
  LET lines == PhysicalLines(stations, services)
      rides == ServiceEdges(lines, services)
      trans == TransferPass([edges |-> rides.edges, threw |-> FALSE], stations,
                            rides.stops, 1)
  IN  [threw |-> trans.threw,
       edges |-> IF trans.threw THEN <<>>
                 ELSE ProximityPass(trans.edges, stations, throughServices,
                                    rides.stops, 1, 2),
       stationStops |-> rides.stops,
       stationOrderMap |-> lines.order,
       segmentCache |-> lines.seg]

----------------------------------------------------------------------------
(* The inputs: window.mofurail and the two form fields.

   Two lines meet at one place.  Line Main of company CoA has the stations
   s1, s2, s3 at x = 0, g1, g1 + g2; line South of company CoB has s4 at
   x = g1 + off (off = 0: the same point as s2) and s5 further on.  s2 and s4
   carry one name.  Local stops everywhere on Main, Express (when it runs)
   skips s2, LocalS runs on South; Dummy teaches the geometry of Main. *)

NumGaps == 2

Gap(k) ==
  CASE k = 1 -> 12
    [] k = 2 -> 300
    [] k = 3 -> 148
    [] OTHER -> 100 * k

Gaps == {Gap(k) : k \in 1..NumGaps}

Offsets == {0, MAX_WALK_DISTANCE_M - 2, 400}

Directions == {"", "Up", "Down"}

Queries == { <<"N1", "N5">>, <<"N1", "N2">>, <<"N3", "N2">>, <<"N5", "N1">>,
             <<"N2", "N3">>, <<"N1", "N9">>, <<"N1", "N1">> }

\* the station ids; the second scheme holds the ids the source names
StationIds(scheme) ==
  IF scheme = 1 THEN <<"KA01", "KA02", "KA03", "NY11", "NY12">>
  ELSE <<"IK01", "IK02", "IK03", "NY10", "NY12">>

Params ==
  { p \in [g1 : Gaps, g2 : Gaps, off : Offsets, expr : 0..2, s3in : BOOLEAN,
           scheme : 1..2, rule : {"none", "fwd", "rev"}, dir : Directions,
           badline : BOOLEAN, q : Queries] :
      /\ p.rule = "none" => p.dir = ""
      /\ p.rule = "rev" => ~p.badline
      /\ ~p.s3in => p.scheme = 1 /\ p.rule = "none"
      /\ p.scheme = 2 => ~p.badline
      /\ p.q[1] = p.q[2] => p.g2 = Gap(1) /\ p.rule = "none" /\ p.scheme = 1 }

StationList(p) ==
  LET id == StationIds(p.scheme)
      s1 == [id |-> id[1], name |-> "N1", x |-> 0, y |-> 0,
             company |-> "CoA", line |-> "Main"]
      s2 == [id |-> id[2], name |-> "N2", x |-> p.g1, y |-> 0,
             company |-> "CoA", line |-> IF p.badline THEN "Branch" ELSE "Main"]
      s3 == [id |-> id[3], name |-> "N3", x |-> p.g1 + p.g2, y |-> 0,
             company |-> "CoA", line |-> "Main"]
      s4 == [id |-> id[4], name |-> "N2", x |-> p.g1 + p.off, y |-> 0,
             company |-> "CoB", line |-> "South"]
      s5 == [id |-> id[5], name |-> "N5", x |-> p.g1 + p.off + Gap(5), y |-> 0,
             company |-> "CoB", line |-> "South"]
  IN  IF p.s3in THEN <<s1, s2, s3, s4, s5>> ELSE <<s1, s2, s4, s5>>

ServiceList(p) ==
  LET id == StationIds(p.scheme)
      main(stops) == [company |-> "CoA", line |-> "Main", stops |-> stops]
      south(stops) == [company |-> "CoB", line |-> "South", stops |-> stops]
      dummy == [type |-> "Dummy", routes |-> <<main(<<id[1], id[2], id[3]>>)>>]
      local == [type |-> "Local",
                routes |-> IF p.scheme = 1 THEN <<main(<<id[1], id[2], id[3]>>)>>
                           ELSE <<main(<<id[1], id[2], id[3]>>), south(<<id[4], id[5]>>)>>]
      express == [type |-> "Express",
                  routes |-> IF p.expr = 1 THEN <<main(<<id[1], id[3]>>)>>
                             ELSE <<main(<<id[1], id[3]>>), south(<<id[4], id[5]>>)>>]
      localS == [type |-> "LocalS", routes |-> <<south(<<id[4], id[5]>>)>>]
  IN  IF p.expr = 0 THEN <<dummy, local, localS>>
      ELSE <<dummy, express, local, localS>>

ThroughList(p) ==
  LET st == StationList(p)
      a == IF p.rule = "fwd" THEN st[2] ELSE st[Len(st) - 1]
      b == IF p.rule = "fwd" THEN st[Len(st) - 1] ELSE st[2]
  IN  IF p.rule = "none" THEN <<>>
      ELSE << [stationIdA |-> a.id, stationIdB |-> b.id,
               companyA |-> a.company, lineA |-> a.line,
               companyB |-> b.company, lineB |-> b.line,
               types |-> <<"Local">>,
               directionFromA |-> p.dir, departureDirection |-> ""] >>

Dataset(p) ==
  [stations |-> StationList(p), services |-> ServiceList(p),
   throughServices |-> ThroughList(p), fromName |-> p.q[1], toName |-> p.q[2]]

Datasets == {Dataset(p) : p \in Params}

----------------------------------------------------------------------------
(* dijkstra *)

\* m[k] ?? d
GetOr(m, k, d) == IF k \in DOMAIN m THEN m[k] ELSE d

\* m[k] = v
Put(m, k, v) == (k :> v) @@ m

\* node.split("_")[0]
IdOf(node) == node[1]

\* node.split("_")[1]
TypeOf(node) == node[2]

\* prev[node], NoNode standing for undefined
PrevOf(prev, node) == GetOr(prev, node, NoNode)

\* edges.find(e => e.from === prevNode && e.to === node): index, 0 when undefined
FindEdge(edges, from, to) == FirstIdx({i \in 1..Len(edges) : edges[i].from = from /\ edges[i].to = to})

\* the constraint of source lines 313-320: no walking or platform transfer
\* right after a transfer or a through service
ConsecutiveTransfer(edges, prev, node, edge) ==
  /\ edge.type = "Transfer" /\ edge.line \in {"Walk", "Platform"}
  /\ PrevOf(prev, node) # NoNode
  /\ LET k == FindEdge(edges, PrevOf(prev, node), node)
     IN  k # 0 /\ edges[k].type \in {"Transfer", "Through"}

\* throughServices.find of source lines 340-345: index, 0 when undefined
ThroughRule(throughServices, fromId, toId, fromSt, toSt, baseFromType) ==
  FirstIdx({i \in 1..Len(throughServices) :
              LET ts == throughServices[i]
              IN  /\ ts.stationIdA = fromId /\ ts.stationIdB = toId
                  /\ ts.companyA = fromSt.company /\ ts.lineA = fromSt.line
                  /\ ts.companyB = toSt.company /\ ts.lineB = toSt.line
                  /\ Includes(ts.types, baseFromType)})

\* ArrivalDir with the operands of the comparison exchanged
ArrivalDirSwapped(lineOrder, fromId, prevId) ==
  IF OrdGreater(Ordinal(lineOrder, prevId), Ordinal(lineOrder, fromId))
  THEN "Up" ELSE "Down"

\* dir of source line 354
ArrivalDir(lineOrder, fromId, prevId) ==
  IF OrdGreater(Ordinal(lineOrder, fromId), Ordinal(lineOrder, prevId))
  THEN "Up" ELSE "Down"

\* the arrival-direction test of source lines 350-357: TRUE when the edge is refused
DirectionMismatch(rule, stationOrderMap, fromSt, fromId, prevId) ==
  /\ rule.directionFromA # ""
  /\ LineKey(fromSt.company, fromSt.line) \in DOMAIN stationOrderMap
  /\ rule.directionFromA #
       ArrivalDir(stationOrderMap[LineKey(fromSt.company, fromSt.line)], fromId, prevId)

\* the constraint of source lines 322-364: TRUE when a through edge is refused.
\* The departure-direction branch (lines 360-363) has an empty body.
ThroughRefused(stations, throughServices, stationOrderMap, prev, node, edge) ==
  /\ edge.type = "Through"
  /\ \/ PrevOf(prev, node) = NoNode
     \/ LET fromId == IdOf(node)
            toId == IdOf(edge.to)
            prevId == IdOf(PrevOf(prev, node))
            f == FindStation(stations, fromId)
            t == FindStation(stations, toId)
            q == FindStation(stations, prevId)
        IN  \/ f = 0 \/ t = 0 \/ q = 0
            \/ LET r == ThroughRule(throughServices, fromId, toId, stations[f],
                                    stations[t], BaseType(TypeOf(node)))
               IN  \/ r = 0
                   \/ DirectionMismatch(throughServices[r], stationOrderMap,
                                        stations[f], fromId, prevId)

\* PlatformUTurn comparing this station with the one the edge leads to
PlatformUTurnOfTarget(stations, prev, node, edge) ==
  /\ edge.line = "Platform"
  /\ PrevOf(prev, node) # NoNode
  /\ LET f == FindStation(stations, IdOf(node))
         q == FindStation(stations, IdOf(edge.to))
     IN  /\ f # 0 /\ q # 0
         /\ stations[f].company = stations[q].company
         /\ stations[f].line = stations[q].line

\* the constraint of source lines 366-377: no platform transfer when the
\* previous station has the company and the line of this one
PlatformUTurn(stations, prev, node, edge) ==
  /\ edge.line = "Platform"
  /\ PrevOf(prev, node) # NoNode
  /\ LET f == FindStation(stations, IdOf(node))
         q == FindStation(stations, IdOf(PrevOf(prev, node)))
     IN  /\ f # 0 /\ q # 0
         /\ stations[f].company = stations[q].company
         /\ stations[f].line = stations[q].line

\* the constraint of source lines 379-383: the body of the range check is
\* empty, so no ride edge is ever refused
RangeRefused(stationOrderMap, start, goal, node, edge) ==
  /\ edge.type \notin {"Transfer", "Through", "Walk", "Platform"}
  /\ FALSE

\* every `continue` of the loop body over the edges of a node
Refused(env, st, node, edge) ==
  \/ ConsecutiveTransfer(env.edges, st.prev, node, edge)
  \/ ThroughRefused(env.stations, env.throughServices, env.stationOrderMap,
                    st.prev, node, edge)
  \/ PlatformUTurn(env.stations, st.prev, node, edge)
  \/ RangeRefused(env.stationOrderMap, env.start, env.goal, node, edge)

\* RelaxEdge keeping the predecessor a node already has when its time improves
RelaxEdgeStalePrev(env, st, node, time, k) ==
  LET edge == env.edges[k]
      newTime == time + edge.time
      newDistance == GetOr(st.distances, node, 0) + edge.dist
      known == edge.to \in DOMAIN st.prev
  IN  IF edge.from # node \/ Refused(env, st, node, edge) THEN st
      ELSE IF edge.to \in DOMAIN st.times /\ newTime >= st.times[edge.to] THEN st
      ELSE [times |-> Put(st.times, edge.to, newTime),
            distances |-> Put(st.distances, edge.to, newDistance),
            prev |-> IF known THEN st.prev ELSE Put(st.prev, edge.to, node),
            via |-> IF known THEN st.via ELSE Put(st.via, edge.to, k),
            pq |-> Append(st.pq, [node |-> edge.to, time |-> newTime])]

\* the cost update of source lines 385-394, for the k-th edge; via records
\* which edge set prev (the source keeps the nodes only)
RelaxEdge(env, st, node, time, k) ==
  LET edge == env.edges[k]
      newTime == time + edge.time
      newDistance == GetOr(st.distances, node, 0) + edge.dist
  IN  IF edge.from # node \/ Refused(env, st, node, edge) THEN st
      ELSE IF edge.to \in DOMAIN st.times /\ newTime >= st.times[edge.to] THEN st
      ELSE [times |-> Put(st.times, edge.to, newTime),
            distances |-> Put(st.distances, edge.to, newDistance),
            prev |-> Put(st.prev, edge.to, node),
            via |-> Put(st.via, edge.to, k),
            pq |-> Append(st.pq, [node |-> edge.to, time |-> newTime])]

\* the indices of the edges with edge.from === node, ascending: the iterations
\* of `for (const edge of edges)` that pass source line 311
OutEdges(edges, node) ==
  LET S == {k \in 1..Len(edges) : edges[k].from = node}
  IN  [i \in 1..Cardinality(S) |->
         CHOOSE k \in S : Cardinality({j \in S : j < k}) = i - 1]

\* for (const edge of edges): the edges of the node, in list order
RECURSIVE RelaxFrom(_, _, _, _, _, _)
RelaxFrom(env, st, node, time, out, i) ==
  IF i > Len(out) THEN st
  ELSE RelaxFrom(env, RelaxEdge(env, st, node, time, out[i]), node, time, out, i + 1)

RelaxAll(env, st, node, time) ==
  RelaxFrom(env, st, node, time, OutEdges(env.edges, node), 1)

\* pq.sort((a, b) => a.time - b.time)
RECURSIVE InsertByTime(_, _)
InsertByTime(sorted, e) ==
  IF sorted = <<>> THEN <<e>>
  ELSE IF e.time < sorted[1].time THEN <<e>> \o sorted
  ELSE <<sorted[1]>> \o InsertByTime(Tail(sorted), e)

RECURSIVE SortByTime(_, _)
SortByTime(pq, k) ==
  IF k = 0 THEN <<>> ELSE InsertByTime(SortByTime(pq, k - 1), pq[k])

\* the start nodes (source lines 294-301)
RECURSIVE SeedStart(_, _, _, _)
SeedStart(st, startStationId, startTypes, k) ==
  IF k > Len(startTypes) THEN st
  ELSE LET startNode == Node(startStationId, startTypes[k])
       IN  SeedStart([st EXCEPT !.times = Put(@, startNode, 0),
                                !.distances = Put(@, startNode, 0),
                                !.pq = Append(@, [node |-> startNode, time |-> 0])],
                     startStationId, startTypes, k + 1)

DijkstraStart(stationStops, startStationId) ==
  SeedStart([times |-> EmptyMap, distances |-> EmptyMap, prev |-> EmptyMap,
             via |-> EmptyMap, pq |-> <<>>],
            startStationId, StopTypes(stationStops, startStationId), 1)

\* the goal node of least time, the first one on ties (source lines 398-409);
\* NoNode standing for null
RECURSIVE BestGoal(_, _, _, _, _)
BestGoal(times, goalStationId, goalTypes, k, best) ==
  IF k > Len(goalTypes) THEN best
  ELSE LET goalNode == Node(goalStationId, goalTypes[k])
       IN  BestGoal(times, goalStationId, goalTypes, k + 1,
                    IF goalNode \in DOMAIN times
                       /\ (best = NoNode \/ times[goalNode] < times[best])
                    THEN goalNode ELSE best)

\* while (current) { path.unshift(current); current = prev[current]; }
\* fuel bounds the walk by the number of nodes, so that a cycle would show
\* as a path longer than the nodes there are
RECURSIVE PathTo(_, _, _)
PathTo(prev, current, fuel) ==
  IF current = NoNode \/ fuel = 0 THEN <<>>
  ELSE Append(PathTo(prev, PrevOf(prev, current), fuel - 1), current)

\* the return value of dijkstra; viaEdges lists, for each step of the path,
\* the index of the edge whose relaxation set prev (not part of the source's record)
DijkstraResult(st, stationStops, goalStationId) ==
  LET bestGoalNode == BestGoal(st.times, goalStationId,
                               StopTypes(stationStops, goalStationId), 1, NoNode)
      path == PathTo(st.prev, bestGoalNode, Cardinality(DOMAIN st.times) + 1)
  IN  IF bestGoalNode = NoNode
      THEN [found |-> FALSE, path |-> <<>>, time |-> 0, distance |-> 0,
            viaEdges |-> <<>>]
      ELSE [found |-> TRUE, path |-> path, time |-> st.times[bestGoalNode],
            distance |-> st.distances[bestGoalNode],
            viaEdges |-> [i \in 1..(Len(path) - 1) |-> GetOr(st.via, path[i + 1], 0)]]

----------------------------------------------------------------------------
(* searchRoute *)

\* searchPatterns (source lines 451-455); a penalty left out is 0
searchPatterns ==
  << [type |-> "Fastest", transfer |-> 0, express |-> 0],
     [type |-> "FewTransfers", transfer |-> PENALTY_TRANSFER_A * Scale, express |-> 0],
     [type |-> "LocalFirst", transfer |-> PENALTY_TRANSFER_B * Scale,
      express |-> PENALTY_EXPRESS_B * Scale] >>

\* expressTypes (source line 457)
expressTypes ==
  {"LimitedExp", "Rapid", "Express", "SemiExp", "RapidExp", "LimitedExpYamakaze",
   "SectionExp", "CommuterSemiExp", "RapidS"}

\* one element of edges.map (source lines 462-471)
PenalizedEdge(edge, pattern) ==
  LET t1 == IF pattern.transfer # 0 /\ edge.type \in {"Transfer", "Platform", "Walk"}
            THEN edge.time + pattern.transfer ELSE edge.time
      t2 == IF pattern.express # 0 /\ edge.type \in expressTypes
            THEN t1 + pattern.express ELSE t1
  IN  [edge EXCEPT !.time = t2]

ModifiedEdges(edges, pattern) == [k \in 1..Len(edges) |-> PenalizedEdge(edges[k], pattern)]

\* stations.filter(s => s.name === name), as station ids in list order
RECURSIVE StationsNamed(_, _, _)
StationsNamed(stations, name, k) ==
  IF k > Len(stations) THEN <<>>
  ELSE (IF stations[k].name = name THEN <<stations[k].id>> ELSE <<>>)
       \o StationsNamed(stations, name, k + 1)

\* the (f, t) of the two loops of source lines 474-475, in their order
QueryPairs(d) ==
  LET fs == StationsNamed(d.stations, d.fromName, 1)
      ts == StationsNamed(d.stations, d.toName, 1)
  IN  [k \in 1..(Len(fs) * Len(ts)) |->
         <<fs[((k - 1) \div Len(ts)) + 1], ts[((k - 1) % Len(ts)) + 1]>>]

NoRoute == [found |-> FALSE, path |-> <<>>, time |-> 0, distance |-> 0, viaEdges |-> <<>>]

\* the last call of dijkstra: its start and goal beside what it returned
NoCall == NoRoute @@ [start |-> "", goal |-> ""]

\* res.path.join("->"), a node being `${id}_${type}`
RECURSIVE pathKey(_)
pathKey(path) ==
  IF path = <<>> THEN <<>>
  ELSE IF Len(path) = 1 THEN <<path[1][1], "_", path[1][2]>>
  ELSE <<path[1][1], "_", path[1][2], "->">> \o pathKey(Tail(path))

\* trueTime and trueDistance of source lines 497-507: the first edge of the
\* list between each two nodes of the path
RECURSIVE TrueCost(_, _, _)
TrueCost(edges, path, i) ==
  IF i >= Len(path) THEN [time |-> 0, distance |-> 0]
  ELSE LET k == FindEdge(edges, path[i], path[i + 1])
           rest == TrueCost(edges, path, i + 1)
       IN  IF k = 0 THEN rest
           ELSE [time |-> edges[k].time + rest.time,
                 distance |-> edges[k].dist + rest.distance]

\* UniqueResults without the test of seenPaths
RECURSIVE UniqueResultsKeepAll(_, _, _, _, _)
UniqueResultsKeepAll(edges, results, k, seenPaths, unique) ==
  IF k > Len(results) THEN unique
  ELSE LET cost == TrueCost(edges, results[k].path, 1)
           res == [results[k] EXCEPT !.time = cost.time, !.distance = cost.distance]
       IN  UniqueResultsKeepAll(edges, results, k + 1, seenPaths, Append(unique, res))

\* the loop of source lines 495-514
RECURSIVE UniqueResults(_, _, _, _, _)
UniqueResults(edges, results, k, seenPaths, unique) ==
  IF k > Len(results) THEN unique
  ELSE LET cost == TrueCost(edges, results[k].path, 1)
           res == [results[k] EXCEPT !.time = cost.time, !.distance = cost.distance]
           key == pathKey(res.path)
       IN  IF key \in seenPaths
           THEN UniqueResults(edges, results, k + 1, seenPaths, unique)
           ELSE UniqueResults(edges, results, k + 1, seenPaths \cup {key},
                              Append(unique, res))

\* uniqueResults.sort((a, b) => a.time - b.time).slice(0, 3)
Ranked(edges, results) ==
  LET unique == UniqueResults(edges, results, 1, {}, <<>>)
      sorted == SortByTime(unique, Len(unique))
  IN  SubSeq(sorted, 1, IF Len(sorted) < MAX_RESULTS THEN Len(sorted) ELSE MAX_RESULTS)

----------------------------------------------------------------------------
(* The state machine: one search request *)

NoGraph == [threw |-> FALSE, edges |-> <<>>, stationStops |-> <<>>,
            stationOrderMap |-> EmptyMap, segmentCache |-> EmptyMap]

NoSearch == [times |-> EmptyMap, distances |-> EmptyMap, prev |-> EmptyMap,
             via |-> EmptyMap, pq |-> <<>>, start |-> "", goal |-> ""]

Init ==
  /\ data \in Datasets
  /\ pc = "start"
  /\ graph = NoGraph
  /\ pat = 0
  /\ pairIdx = 0
  /\ modifiedEdges = <<>>
  /\ dj = NoSearch
  /\ ret = NoCall
  /\ bestRoute = NoRoute
  /\ allResults = <<>>
  /\ shown = <<>>

\* what dijkstra reads beside its own maps
Env == [stations |-> data.stations, edges |-> modifiedEdges,
        throughServices |-> data.throughServices,
        stationOrderMap |-> graph.stationOrderMap,
        start |-> dj.start, goal |-> dj.goal]

\* searchRoute up to the loop over the patterns (source lines 435-448)
BuildGraph ==
  /\ pc = "start"
  /\ graph' = buildGraph(data.stations, data.services, data.throughServices)
  /\ pc' = IF graph'.threw THEN "threw"
           ELSE IF QueryPairs(data) = <<>> THEN "alert"
           ELSE "pattern"
  /\ pat' = 1
  /\ UNCHANGED <<data, pairIdx, modifiedEdges, dj, ret, bestRoute, allResults, shown>>

\* the head of one pattern's iteration (source lines 460-473)
StartPattern ==
  /\ pc = "pattern"
  /\ modifiedEdges' = ModifiedEdges(graph.edges, searchPatterns[pat])
  /\ bestRoute' = NoRoute
  /\ pairIdx' = 1
  /\ pc' = "call"
  /\ UNCHANGED <<data, graph, pat, dj, ret, allResults, shown>>

\* the call of dijkstra for one (f, t), up to its while loop (source lines 288-301)
DijkstraInit ==
  /\ pc = "call"
  /\ LET ft == QueryPairs(data)[pairIdx]
     IN  dj' = DijkstraStart(graph.stationStops, ft[1])
                 @@ [start |-> ft[1], goal |-> ft[2]]
  /\ pc' = "loop"
  /\ UNCHANGED <<data, graph, pat, pairIdx, modifiedEdges, ret, bestRoute,
                 allResults, shown>>

\* one iteration of the while loop that ends at `continue` (source line 307)
PopStale ==
  /\ pc = "loop"
  /\ dj.pq # <<>>
  /\ LET sorted == SortByTime(dj.pq, Len(dj.pq))
     IN  /\ sorted[1].time > dj.times[sorted[1].node]
         /\ dj' = [dj EXCEPT !.pq = Tail(sorted)]
  /\ UNCHANGED <<data, pc, graph, pat, pairIdx, modifiedEdges, ret, bestRoute,
                 allResults, shown>>

\* one iteration of the while loop that relaxes the edges of the node (lines 303-396)
PopRelax ==
  /\ pc = "loop"
  /\ dj.pq # <<>>
  /\ LET sorted == SortByTime(dj.pq, Len(dj.pq))
         st == [times |-> dj.times, distances |-> dj.distances, prev |-> dj.prev,
                via |-> dj.via, pq |-> Tail(sorted)]
     IN  /\ sorted[1].time <= dj.times[sorted[1].node]
         /\ dj' = RelaxAll(Env, st, sorted[1].node, sorted[1].time)
                    @@ [start |-> dj.start, goal |-> dj.goal]
  /\ UNCHANGED <<data, pc, graph, pat, pairIdx, modifiedEdges, ret, bestRoute,
                 allResults, shown>>

\* the end of dijkstra and the comparison with bestRoute (lines 398-422, 476-480)
DijkstraReturn ==
  /\ pc = "loop"
  /\ dj.pq = <<>>
  /\ LET route == DijkstraResult(dj, graph.stationStops, dj.goal)
     IN  /\ ret' = route @@ [start |-> dj.start, goal |-> dj.goal]
         /\ bestRoute' = IF route.found /\ (~bestRoute.found \/ route.time < bestRoute.time)
                         THEN route ELSE bestRoute
  /\ IF pairIdx < Len(QueryPairs(data))
     THEN pairIdx' = pairIdx + 1 /\ pc' = "call"
     ELSE pairIdx' = pairIdx /\ pc' = "endpattern"
  /\ UNCHANGED <<data, graph, pat, modifiedEdges, dj, allResults, shown>>

\* the tail of one pattern's iteration (source line 482)
EndPattern ==
  /\ pc = "endpattern"
  /\ allResults' = IF bestRoute.found
                   THEN Append(allResults,
                               bestRoute @@ [searchType |-> searchPatterns[pat].type])
                   ELSE allResults
  /\ IF pat < Len(searchPatterns)
     THEN pat' = pat + 1 /\ pc' = "pattern"
     ELSE pat' = pat /\ pc' = "rank"
  /\ UNCHANGED <<data, graph, pairIdx, modifiedEdges, dj, ret, bestRoute, shown>>

\* no result at all (source lines 485-489)
NotFound ==
  /\ pc = "rank"
  /\ allResults = <<>>
  /\ pc' = "notfound"
  /\ UNCHANGED <<data, graph, pat, pairIdx, modifiedEdges, dj, ret, bestRoute,
                 allResults, shown>>

\* true costs, duplicates removed, sorted, cut to three, displayed (lines 491-517)
Display ==
  /\ pc = "rank"
  /\ allResults # <<>>
  /\ shown' = Ranked(graph.edges, allResults)
  /\ pc' = "done"
  /\ UNCHANGED <<data, graph, pat, pairIdx, modifiedEdges, dj, ret, bestRoute,
                 allResults>>

Next ==
  \/ BuildGraph
  \/ StartPattern
  \/ DijkstraInit
  \/ PopStale
  \/ PopRelax
  \/ DijkstraReturn
  \/ EndPattern
  \/ NotFound
  \/ Display

Spec == Init /\ [][Next]_vars

----------------------------------------------------------------------------
(* Vocabulary of the properties *)

\* the station record of an id; HasStation tells whether there is one
HasStation(id) == FindStation(data.stations, id) # 0

StationOf(id) == data.stations[FindStation(data.stations, id)]

\* the edge relaxed at step i of a returned path, from path[i] to path[i + 1]
PathEdge(r, i) == graph.edges[r.viaEdges[i]]

Steps(r) == 1..(Len(r.path) - 1)

\* dijkstra has returned a path
Returned == ret.start # "" /\ ret.found

IsRide(e) == e.type \notin {"Transfer", "Through"}

----------------------------------------------------------------------------
(* C1 *)

\* C1: No-consecutive-transfer.  A path returned by dijkstra never holds two
\* adjacent edges of which the first is a transfer (same station, platform or
\* walking, all of type Transfer) or a through service, and the second is a
\* transfer.
C1_NoConsecutiveTransfer ==
  Returned =>
    \A i \in Steps(ret) :
      (i + 1) \in Steps(ret) =>
        ~ (/\ PathEdge(ret, i).type \in {"Transfer", "Through"}
           /\ PathEdge(ret, i + 1).type = "Transfer")

----------------------------------------------------------------------------
(* C2 *)

\* some rule matches the step from node n to node m of a through edge, and its
\* arrival direction, when it has one and Applies, is the one of the step p -> n
RuleAllows(p, n, m, Applies(_)) ==
  /\ HasStation(IdOf(n)) /\ HasStation(IdOf(m))
  /\ \E k \in 1..Len(data.throughServices) :
       LET ts == data.throughServices[k]
           sn == StationOf(IdOf(n))
           sm == StationOf(IdOf(m))
           key == LineKey(sn.company, sn.line)
           ordN == IF key \in DOMAIN graph.stationOrderMap
                   THEN Ordinal(graph.stationOrderMap[key], IdOf(n)) ELSE -1
           ordP == IF key \in DOMAIN graph.stationOrderMap
                   THEN Ordinal(graph.stationOrderMap[key], IdOf(p)) ELSE -1
           dir == IF ordN # -1 /\ ordP # -1 /\ ordN > ordP THEN "Up" ELSE "Down"
       IN  /\ ts.stationIdA = IdOf(n) /\ ts.stationIdB = IdOf(m)
           /\ ts.companyA = sn.company /\ ts.lineA = sn.line
           /\ ts.companyB = sm.company /\ ts.lineB = sm.line
           /\ \E t \in 1..Len(ts.types) : ts.types[t] = BaseType(TypeOf(n))
           /\ (ts.directionFromA # "" /\ Applies(key)) => ts.directionFromA = dir

ThroughGated(Applies(_)) ==
  Returned =>
    \A i \in Steps(ret) :
      PathEdge(ret, i).type = "Through" =>
        /\ i > 1
        /\ RuleAllows(ret.path[i - 1], ret.path[i], ret.path[i + 1], Applies)

AnyLine(key) == TRUE

LineHasOrdinals(key) == key \in DOMAIN graph.stationOrderMap

\* C2 as stated: a through edge N -> M is in a returned path only if N has a
\* predecessor P, a rule matches N and M and the base type of N, and, when
\* the rule has directionFromA, the direction from P to N by their ordinals
\* on N's line equals it.
C2_ThroughGating_Original == ThroughGated(AnyLine)

\* C2 (amended): as above, the direction being required only when the rule has
\* directionFromA and the line of N's station record has an ordinal map.
C2_ThroughGating == ThroughGated(LineHasOrdinals)

\* a returned path holds a through edge taken under a rule with directionFromA,
\* on a line that has an ordinal map
C2_Witness ==
  /\ Returned
  /\ \E i \in Steps(ret) :
       /\ PathEdge(ret, i).type = "Through"
       /\ i > 1
       /\ \E k \in 1..Len(data.throughServices) :
            /\ data.throughServices[k].directionFromA # ""
            /\ data.throughServices[k].stationIdA = IdOf(ret.path[i])
       /\ LineHasOrdinals(LineKey(StationOf(IdOf(ret.path[i])).company,
                                  StationOf(IdOf(ret.path[i])).line))

----------------------------------------------------------------------------
(* C3 *)

\* edge e has a mirror whose company satisfies SameCompany
Mirrored(SameCompany(_, _)) ==
  pc # "start" =>
    \A k \in 1..Len(graph.edges) :
      \E m \in 1..Len(graph.edges) :
        LET e == graph.edges[k]
            f == graph.edges[m]
        IN  /\ f.from = e.to /\ f.to = e.from
            /\ f.time = e.time /\ f.dist = e.dist
            /\ f.type = e.type /\ f.line = e.line
            /\ SameCompany(e, f)

EqualCompany(e, f) == f.company = e.company

\* equal, or for an edge between coincident stations the company of the
\* station each direction leaves
CompanyOfOrigin(e, f) ==
  IF e.line \in {"Platform", "Through"}
  THEN /\ e.company = StationOf(IdOf(e.from)).company
       /\ f.company = StationOf(IdOf(f.from)).company
  ELSE f.company = e.company

\* C3 as stated: every edge (A -> B) of buildGraph has an edge (B -> A) with
\* identical time, dist, type, company and line.
C3_Mirror_Original == Mirrored(EqualCompany)

\* C3 (amended): every edge (A -> B) has an edge (B -> A) with identical time,
\* dist, type and line; the company is identical too, except on platform and
\* through edges, where each direction carries the company of the station it
\* leaves.
C3_Mirror == Mirrored(CompanyOfOrigin)

\* the graph holds a platform or through edge between two companies, and
\* edges of every other kind
C3_Witness ==
  /\ pc # "start"
  /\ \E k \in 1..Len(graph.edges) :
       /\ graph.edges[k].line \in {"Platform", "Through"}
       /\ StationOf(IdOf(graph.edges[k].from)).company
            # StationOf(IdOf(graph.edges[k].to)).company
  /\ \E k \in 1..Len(graph.edges) : graph.edges[k].line = "Walk"
  /\ \E k \in 1..Len(graph.edges) : IsRide(graph.edges[k])
  /\ \E k \in 1..Len(graph.edges) :
       graph.edges[k].type = "Transfer" /\ graph.edges[k].dist = 0
       /\ graph.edges[k].line # "Platform"

----------------------------------------------------------------------------
(* C4 *)

\* the sum of a field (time or dist) over the edges relaxed along a path
RECURSIVE SumVia(_, _, _)
SumVia(viaEdges, i, field) ==
  IF i > Len(viaEdges) THEN 0
  ELSE graph.edges[viaEdges[i]][field] + SumVia(viaEdges, i + 1, field)

\* C4: True-cost recovery.  The time and distance searchRoute reports for a
\* result are the sums of the unpenalized time and dist of the edges the
\* search relaxed along the path.
C4_TrueCost ==
  pc = "done" =>
    \A k \in 1..Len(shown) :
      /\ shown[k].time = SumVia(shown[k].viaEdges, 1, "time")
      /\ shown[k].distance = SumVia(shown[k].viaEdges, 1, "dist")

----------------------------------------------------------------------------
(* C5 *)

\* the ordinal of a station on the line of a ride edge, -1 when it has none
OrdOn(e, id) ==
  IF LineKey(e.company, e.line) \in DOMAIN graph.stationOrderMap
  THEN Ordinal(graph.stationOrderMap[LineKey(e.company, e.line)], id)
  ELSE -1

\* the ride edge e leads to a station outside the ordinals between start and goal
LeavesRange(e, start, goal) ==
  LET a == OrdOn(e, start)
      b == OrdOn(e, goal)
      t == OrdOn(e, IdOf(e.to))
  IN  /\ a # -1 /\ b # -1 /\ t # -1
      /\ (t < a /\ t < b) \/ (t > a /\ t > b)

\* C5: Range check.  dijkstra never accepts a ride edge that carries the
\* path to a station whose ordinal on that line lies outside the range spanned
\* by the start and goal stations on that line.
C5_RangeCheck ==
  \A n \in DOMAIN dj.via :
    IsRide(modifiedEdges[dj.via[n]]) =>
      ~LeavesRange(modifiedEdges[dj.via[n]], dj.start, dj.goal)

----------------------------------------------------------------------------
(* C6 *)

\* some route stops at an id the station list does not hold
MissingReference ==
  \E s \in 1..Len(data.services) :
    \E r \in 1..Len(data.services[s].routes) :
      \E k \in 1..Len(data.services[s].routes[r].stops) :
        ~HasStation(data.services[s].routes[r].stops[k])

\* C6: Missing-reference tolerance.  buildGraph completes without a fatal
\* error on inputs whose routes reference a station id absent from the list.
C6_BuildGraphCompletes == (pc # "start" /\ MissingReference) => ~graph.threw

----------------------------------------------------------------------------
(* C7 *)

\* the sum of a field (time or dist) over the cached segments of the hops
\* between two positions of a line
RECURSIVE SumSegments(_, _, _, _, _)
SumSegments(key, full, lo, hi, field) ==
  IF lo >= hi THEN 0
  ELSE (IF <<key, full[lo], full[lo + 1]>> \in DOMAIN graph.segmentCache
        THEN graph.segmentCache[<<key, full[lo], full[lo + 1]>>][field] ELSE 0)
       + SumSegments(key, full, lo + 1, hi, field)

\* every hop between the two stations of the edge has its SegmentCache entry
HopsCached(e) ==
  LET key == LineKey(e.company, e.line)
      sorted == SortByOrd(graph.stationOrderMap[key], Len(graph.stationOrderMap[key]))
      full == [k \in 1..Len(sorted) |-> sorted[k][1]]
      a == CHOOSE k \in 1..Len(full) : full[k] = IdOf(e.from)
      b == CHOOSE k \in 1..Len(full) : full[k] = IdOf(e.to)
  IN  \A k \in 1..(Len(full) - 1) :
        ((a <= k /\ k < b) \/ (b <= k /\ k < a)) =>
          <<key, full[k], full[k + 1]>> \in DOMAIN graph.segmentCache

\* the edge weighs what the segments between its two stations weigh
WeighsItsHops(e, field) ==
  LET key == LineKey(e.company, e.line)
      sorted == SortByOrd(graph.stationOrderMap[key], Len(graph.stationOrderMap[key]))
      full == [k \in 1..Len(sorted) |-> sorted[k][1]]
      a == CHOOSE k \in 1..Len(full) : full[k] = IdOf(e.from)
      b == CHOOSE k \in 1..Len(full) : full[k] = IdOf(e.to)
  IN  e[field] = SumSegments(key, full, IF a < b THEN a ELSE b, IF a < b THEN b ELSE a,
                             field)

\* C7: Ride-edge cost accumulation.  Every ride edge has dist equal to the
\* sum of the SegmentCache distances, and time equal to the sum of the
\* SegmentCache travel times, of every physical hop between its two stations
\* (stated for the edges whose hops all have a SegmentCache entry).
C7_RideCost ==
  pc # "start" =>
    \A k \in 1..Len(graph.edges) :
      (IsRide(graph.edges[k]) /\ HopsCached(graph.edges[k])) =>
        /\ WeighsItsHops(graph.edges[k], "dist")
        /\ WeighsItsHops(graph.edges[k], "time")

----------------------------------------------------------------------------
(* C8 *)

\* C8: Dedup.  No two results handed to displayRouteResults have the same
\* node sequence, and a path that two or three profiles yield is there once.
C8_Dedup ==
  pc = "done" =>
    /\ \A i, j \in 1..Len(shown) : shown[i].path = shown[j].path => i = j
    /\ \A a \in 1..Len(allResults) :
         Cardinality({i \in 1..Len(shown) : shown[i].path = allResults[a].path}) = 1

\* results are displayed, and two profiles had found the same path
C8_Witness ==
  /\ pc = "done"
  /\ \E a, b \in 1..Len(allResults) : a # b /\ allResults[a].path = allResults[b].path

----------------------------------------------------------------------------
(* C10 *)

\* C10: No platform U-turn.  No returned path holds a platform-transfer edge
\* out of N whose predecessor in the path is at a station with the company
\* and the line of N's station.
C10_NoPlatformUTurn ==
  Returned =>
    \A i \in Steps(ret) :
      (i > 1 /\ PathEdge(ret, i).line = "Platform") =>
        ~ (/\ HasStation(IdOf(ret.path[i])) /\ HasStation(IdOf(ret.path[i - 1]))
           /\ StationOf(IdOf(ret.path[i])).company
                = StationOf(IdOf(ret.path[i - 1])).company
           /\ StationOf(IdOf(ret.path[i])).line
                = StationOf(IdOf(ret.path[i - 1])).line)

\* a returned path holds a platform-transfer edge out of a node that has a
\* predecessor
C10_Witness ==
  /\ Returned
  /\ \E i \in Steps(ret) : i > 1 /\ PathEdge(ret, i).line = "Platform"

----------------------------------------------------------------------------
(* C9 *)

\* edge m may follow edge k under the three transition constraints, each in
\* its strictest reading: no transfer right after a transfer or a through
\* service, a through edge only under a rule whose direction the step into
\* its node matches, no platform transfer after a station of the same
\* company and line
MayFollow(k, m) ==
  LET e == graph.edges[k]
      f == graph.edges[m]
  IN  /\ e.to = f.from
      /\ ~(e.type \in {"Transfer", "Through"} /\ f.type = "Transfer")
      /\ f.type = "Through" => RuleAllows(e.from, f.from, f.to, AnyLine)
      /\ f.line = "Platform" =>
           ~ (/\ HasStation(IdOf(e.from)) /\ HasStation(IdOf(f.from))
              /\ StationOf(IdOf(e.from)).company = StationOf(IdOf(f.from)).company
              /\ StationOf(IdOf(e.from)).line = StationOf(IdOf(f.from)).line)

\* the edges that end some sequence of edges obeying MayFollow and starting
\* at a node of the start station (a through edge needs a predecessor)
RECURSIVE ReachableEdges(_)
ReachableEdges(R) ==
  LET more == {m \in 1..Len(graph.edges) : \E k \in R : MayFollow(k, m)}
  IN  IF more \subseteq R THEN R ELSE ReachableEdges(R \cup more)

FirstEdges(start) ==
  {m \in 1..Len(graph.edges) :
     IdOf(graph.edges[m].from) = start /\ graph.edges[m].type # "Through"}

\* the nodes a sequence of edge indices visits
Visited(p) ==
  {graph.edges[p[1]].from} \cup {graph.edges[p[i]].to : i \in 1..Len(p)}

\* the sequences of edges obeying MayFollow that visit no node twice
RECURSIVE SimplePaths(_, _)
SimplePaths(all, frontier) ==
  LET Ext(p) == {Append(p, m) : m \in {m \in 1..Len(graph.edges) :
                                          /\ MayFollow(p[Len(p)], m)
                                          /\ graph.edges[m].to \notin Visited(p)}}
      more == UNION {Ext(p) : p \in frontier}
  IN  IF more = {} THEN all ELSE SimplePaths(all \cup more, more)

\* some sequence of edges leads from a node of start to a node of goal under
\* the constraints, without visiting a node twice
ValidPathExists(start, goal) ==
  \/ start = goal /\ StopTypes(graph.stationStops, start) # <<>>
  \/ /\ \E k \in ReachableEdges(FirstEdges(start)) : IdOf(graph.edges[k].to) = goal
     /\ LET first == {<<m>> : m \in FirstEdges(start)}
        IN  \E p \in SimplePaths(first, first) :
              IdOf(graph.edges[p[Len(p)]].to) = goal

\* C9: No-path only when unreachable.  Whenever some sequence of edges from
\* a node of the start station to a node of the goal station satisfies the
\* transition constraints, dijkstra returns a path rather than null (stated
\* for the inputs whose routes name stations of the list only, and for the
\* sequences that visit no node twice).
C9_PathWheneverReachable ==
  (ret.start # "" /\ ~ret.found /\ ~MissingReference) =>
    ~ValidPathExists(ret.start, ret.goal)

----------------------------------------------------------------------------
(* C11 *)

\* the PresenceNodes of a station: one per service type recorded for it
PresenceNodes(id) ==
  {Node(id, StopTypes(graph.stationStops, id)[t]) :
     t \in 1..Len(StopTypes(graph.stationStops, id))}

\* the walk along prev from every node reached ends, within as many steps as
\* there are nodes, at a node of the start station
PrevAcyclic ==
  LET count == Cardinality(DOMAIN dj.times)
      starts == PresenceNodes(dj.start)
  IN  \A n \in DOMAIN dj.times :
        LET walk == PathTo(dj.prev, n, count + 1)
        IN  Len(walk) <= count /\ walk[1] \in starts

StartsUnpreceded == \A n \in PresenceNodes(dj.start) : n \notin DOMAIN dj.prev

\* dijkstra has just returned: modifiedEdges is the edge set it was given
JustReturned ==
  /\ ret.start # ""
  /\ pc = "endpattern" \/ (pc = "call" /\ pairIdx > 1)

\* the sum of the times of the edges of the supplied set relaxed along a path
RECURSIVE SumRelaxed(_, _)
SumRelaxed(viaEdges, i) ==
  IF i > Len(viaEdges) THEN 0
  ELSE modifiedEdges[viaEdges[i]].time + SumRelaxed(viaEdges, i + 1)

\* C11: Well-formed result.  Throughout the loop of dijkstra the predecessor
\* map is acyclic and no node of the start station has a predecessor, so the
\* reconstruction ends; and whenever dijkstra returns a result, the path visits no node
\* twice, starts at a node of the start station, ends at a node of the goal
\* station, each of its steps is an edge of the supplied edge set, and the
\* returned time is the sum of the times of the edges relaxed along it.
C11_WellFormed ==
  /\ pc = "loop" => (PrevAcyclic /\ StartsUnpreceded)
  /\ (JustReturned /\ ret.found) =>
       /\ ret.path # <<>>
       /\ \A i, j \in 1..Len(ret.path) : ret.path[i] = ret.path[j] => i = j
       /\ ret.path[1] \in PresenceNodes(ret.start)
       /\ ret.path[Len(ret.path)] \in PresenceNodes(ret.goal)
       /\ Len(ret.viaEdges) = Len(ret.path) - 1
       /\ \A i \in Steps(ret) :
            /\ ret.viaEdges[i] \in 1..Len(modifiedEdges)
            /\ modifiedEdges[ret.viaEdges[i]].from = ret.path[i]
            /\ modifiedEdges[ret.viaEdges[i]].to = ret.path[i + 1]
       /\ ret.time = SumRelaxed(ret.viaEdges, 1)

\* dijkstra has just returned, under a profile with penalties, a path of
\* three nodes or more one of whose nodes is joined to its predecessor by two
\* edges of different times
C11_Witness ==
  /\ JustReturned /\ ret.found
  /\ pat > 1
  /\ Len(ret.path) >= 3
  /\ \E i \in Steps(ret) : \E k \in 1..Len(modifiedEdges) :
       /\ modifiedEdges[k].from = ret.path[i]
       /\ modifiedEdges[k].to = ret.path[i + 1]
       /\ modifiedEdges[k].time # modifiedEdges[ret.viaEdges[i]].time

====
